---- MODULE Spec2Model ----
(***************************************************************************)
(* The Smartie chat widget (frontend/src/components/Chatbot.jsx) as a     *)
(* state machine: the component's four useState cells, the requests its   *)
(* handleSendMessage calls have issued and where each of those async      *)
(* calls is suspended, and the event that produced the current state.     *)
(*                                                                         *)
(* Strings the code inspects (the draft, which it trims) are sequences of *)
(* one-character strings.  JavaScript values that reach the message log   *)
(* are tagged records [t, v]; a property that an object does not carry    *)
(* reads as Undefined, as it does in JavaScript.                          *)
(***************************************************************************)
EXTENDS Naturals, Sequences, FiniteSets

VARIABLES isOpen, messages, inputValue, sessionId, mounted, requests, event

vars == <<isOpen, messages, inputValue, sessionId, mounted, requests, event>>

(* ---------------------------------------------------------------- bounds *)

\* Accepted sends (requests issued) explored in one session.
MaxSends == 2

(* ------------------------------------------------------ JavaScript values *)

Undefined == [t |-> "undefined", v |-> <<>>]

Str(s) == [t |-> "string", v |-> s]

Arr(a) == [t |-> "array", v |-> a]

\* A parsed JSON value: only its `response` and `references` are ever read.
Obj(response, references) ==
    [t |-> "object", response |-> response, references |-> references]

JsonNull == [t |-> "null", response |-> Undefined, references |-> Undefined]

JsonSyntaxError ==
    [t |-> "SyntaxError", response |-> Undefined, references |-> Undefined]

(* ------------------------------------------------------------ the inputs *)

\* What the user can have in the input box: empty, blank, and two drafts
\* that are non-empty after trimming (one of them with leading whitespace).
Drafts == { <<>>, <<" ">>, <<"a">>, <<" ", "b">> }

\* 'session-' + Math.random().toString(36).substr(2, 9): two of its values.
SessionIds == { "session-k3x9q1z7p", "session-0ab84mdtw" }

Keys == { "Enter", "a" }

\* HTTP statuses the endpoint can answer with.
Statuses == { 200, 500 }

\* Response bodies the endpoint can answer with.
BodyGarbage == "<html>Bad Gateway</html>"
BodyNull == "null"
BodyEmptyObject == "{}"
BodyReply == "{\"response\":\"K\"}"
BodyReplyRefs == "{\"response\":\"K\",\"references\":[\"u1\",\"u2\"]}"

Bodies == { BodyGarbage, BodyNull, BodyEmptyObject, BodyReply, BodyReplyRefs }

\* What `await fetch(...)` can settle with: a rejection (status 0 here), or
\* a Response with one of the statuses.
FetchOutcomes ==
    { [kind |-> "reject", status |-> 0] }
    \cup { [kind |-> "response", status |-> s] : s \in Statuses }

(* ------------------------------------------------------- the fixed texts *)

GREETING == <<"Hey! I'm Smartie, your personal MadeWithNestle assistant. Ask me anything, and I'll quickly search the entire site to find the answers you need!">>

FALLBACK == <<"Sorry, I'm having trouble connecting to the server. Please try again later.">>

(* ------------------------------------------------ String.prototype.trim *)

IsWhitespace(c) == c \in { " ", "\t", "\n" }

RECURSIVE TrimStart(_)
TrimStart(s) ==
    IF s = <<>> THEN s
    ELSE IF IsWhitespace(Head(s)) THEN TrimStart(Tail(s)) ELSE s

RECURSIVE TrimEnd(_)
TrimEnd(s) ==
    IF s = <<>> THEN s
    ELSE IF IsWhitespace(s[Len(s)]) THEN TrimEnd(SubSeq(s, 1, Len(s) - 1)) ELSE s

Trim(s) == TrimEnd(TrimStart(s))

\* The guard of handleSendMessage: `!inputValue.trim()` (the empty string
\* is the only falsy string).
DraftIsBlankNoTrim(draft) == draft = <<>>

DraftIsBlank(draft) == Trim(draft) = <<>>

(* -------------------------------------------------- Response and its body *)

ResponseOkAlways(status) == TRUE

\* Response.ok: the status is in 200..299.
ResponseOk(status) == status >= 200 /\ status <= 299

\* response.json(): the parsed body, or JsonSyntaxError when it rejects.
JsonParse(body) ==
    CASE body = BodyNull -> JsonNull
      [] body = BodyEmptyObject -> Obj(Undefined, Undefined)
      [] body = BodyReply -> Obj(Str(<<"K">>), Undefined)
      [] body = BodyReplyRefs -> Obj(Str(<<"K">>), Arr(<<"u1", "u2">>))
      [] OTHER -> JsonSyntaxError

\* `data.response` throws a TypeError when data is null.
PropertyReadThrows(data) == data.t = "null"

(* ------------------------------------------------------------- messages *)

InitialMessagesEmpty == <<>>

\* useState([...]): the log the component is constructed with.
InitialMessages ==
    << [text |-> Str(GREETING), sender |-> "bot", references |-> Undefined] >>

UserMessage(draft) ==
    [text |-> Str(draft), sender |-> "user", references |-> Undefined]

AddUserMessageFirst(prev, userMessage) == <<userMessage>> \o prev

AddUserMessageDropped(prev, userMessage) == prev

\* setMessages(prev => [...prev, userMessage])
AddUserMessage(prev, userMessage) == Append(prev, userMessage)

AddBotResponseAfterGreeting(prev, data) ==
    <<Head(prev)>>
    \o << [text |-> data.response, sender |-> "bot",
           references |-> data.references] >>
    \o Tail(prev)

AddBotResponseNoReferences(prev, data) ==
    Append(prev, [text |-> data.response, sender |-> "bot",
                  references |-> Undefined])

\* setMessages(prev => [...prev, {text: data.response, sender: 'bot',
\*                                references: data.references}])
AddBotResponse(prev, data) ==
    Append(prev, [text |-> data.response, sender |-> "bot",
                  references |-> data.references])

AddFallbackNothing(prev) == prev

AddFallbackRollback(prev) ==
    Append(SubSeq(prev, 1, Len(prev) - 1),
           [text |-> Str(FALLBACK), sender |-> "bot", references |-> Undefined])

\* setMessages(prev => [...prev, {text: "Sorry, ...", sender: 'bot'}])
AddFallback(prev) ==
    Append(prev,
           [text |-> Str(FALLBACK), sender |-> "bot", references |-> Undefined])

(* -------------------------------------------------------- initial state *)

\* The state the component is constructed with (the four useState calls);
\* no request has been issued and the mount effect has not run yet.
Init ==
    /\ isOpen = FALSE
    /\ messages = InitialMessages
    /\ inputValue = <<>>
    /\ sessionId = ""
    /\ mounted = FALSE
    /\ requests = <<>>
    /\ event = "init"

\* Every handler invocation and every settlement is recorded in `event`.
Record(op) == event' = op

(* -------------------------------------------------------------- actions *)

MountEveryRender ==
    /\ mounted' = TRUE
    /\ \E id \in SessionIds : sessionId' = id
    /\ Record("mount")
    /\ UNCHANGED <<isOpen, messages, inputValue, requests>>

\* useEffect(() => setSessionId('session-' + ...), []): runs once, after the
\* first render and before React handles any later event.
Mount ==
    /\ ~mounted
    /\ mounted' = TRUE
    /\ \E id \in SessionIds : sessionId' = id
    /\ Record("mount")
    /\ UNCHANGED <<isOpen, messages, inputValue, requests>>

ToggleOpenValueTrue == TRUE

\* The header's onClick: setIsOpen(!isOpen).
ToggleOpenValue == ~isOpen

ToggleOpen ==
    /\ mounted
    /\ isOpen' = ToggleOpenValue
    /\ Record("toggle")
    /\ UNCHANGED <<messages, inputValue, sessionId, mounted, requests>>

\* The input's onChange: setInputValue(e.target.value).  The input is
\* rendered only while the widget is open.
UpdateDraft ==
    /\ mounted
    /\ isOpen
    /\ \E text \in Drafts : inputValue' = text
    /\ Record("change")
    /\ UNCHANGED <<isOpen, messages, sessionId, mounted, requests>>

NewRequestClearedDraft ==
    [message |-> <<>>, session_id |-> sessionId, stage |-> "fetch",
     fetched |-> "pending", status |-> 0, body |-> "",
     promise |-> "pending", botIdx |-> 0]

\* The request an accepted handleSendMessage issues, suspended at
\* `await fetch(...)`.  message and session_id are the JSON body's fields;
\* fetched and status are what fetch settled with, body the response body
\* once read, promise the state of the promise the call returned, botIdx
\* the log position of the bot message appended for it.
NewRequest ==
    [message |-> inputValue, session_id |-> sessionId, stage |-> "fetch",
     fetched |-> "pending", status |-> 0, body |-> "",
     promise |-> "pending", botIdx |-> 0]

handleSendMessageLocked ==
    IF DraftIsBlank(inputValue)
       \/ \E i \in 1..Len(requests) : requests[i].stage # "done"
    THEN UNCHANGED <<isOpen, messages, inputValue, sessionId, mounted, requests>>
    ELSE /\ Len(requests) < MaxSends
         /\ messages' = AddUserMessage(messages, UserMessage(inputValue))
         /\ inputValue' = <<>>
         /\ requests' = Append(requests, NewRequest)
         /\ UNCHANGED <<isOpen, sessionId, mounted>>

handleSendMessageKeepsDraft ==
    IF DraftIsBlank(inputValue)
    THEN UNCHANGED <<isOpen, messages, inputValue, sessionId, mounted, requests>>
    ELSE /\ Len(requests) < MaxSends
         /\ messages' = AddUserMessage(messages, UserMessage(inputValue))
         /\ requests' = Append(requests, NewRequest)
         /\ UNCHANGED <<isOpen, inputValue, sessionId, mounted>>

\* handleSendMessage up to its first await.
handleSendMessage ==
    IF DraftIsBlank(inputValue)
    THEN UNCHANGED <<isOpen, messages, inputValue, sessionId, mounted, requests>>
    ELSE /\ Len(requests) < MaxSends
         /\ messages' = AddUserMessage(messages, UserMessage(inputValue))
         /\ inputValue' = <<>>
         /\ requests' = Append(requests, NewRequest)
         /\ UNCHANGED <<isOpen, sessionId, mounted>>

\* handleKeyPress: Enter sends, any other key does nothing.
HandleKeyPress ==
    /\ mounted
    /\ isOpen
    /\ \E key \in Keys :
         IF key = "Enter"
         THEN /\ handleSendMessage
              /\ Record("enter")
         ELSE /\ UNCHANGED <<isOpen, messages, inputValue, sessionId,
                             mounted, requests>>
              /\ Record("keypress")

\* The Send button's onClick.
ClickSend ==
    /\ mounted
    /\ isOpen
    /\ handleSendMessage
    /\ Record("click")

CatchAndRetry(i, fetched, status, body) ==
    /\ messages' = AddFallback(messages)
    /\ requests' =
         LET ended == [requests EXCEPT ![i].stage = "done",
                                       ![i].fetched = fetched,
                                       ![i].status = status,
                                       ![i].body = body,
                                       ![i].promise = "fulfilled",
                                       ![i].botIdx = Len(messages) + 1]
         IN IF Len(requests) < MaxSends
            THEN Append(ended, [requests[i] EXCEPT !.stage = "fetch"])
            ELSE ended

\* The catch block: the fallback message is appended and the call ends.
Catch(i, fetched, status, body) ==
    /\ messages' = AddFallback(messages)
    /\ requests' = [requests EXCEPT ![i].stage = "done",
                                    ![i].fetched = fetched,
                                    ![i].status = status,
                                    ![i].body = body,
                                    ![i].promise = "fulfilled",
                                    ![i].botIdx = Len(messages) + 1]

SettleFrameClearsDraft ==
    /\ inputValue' = <<>>
    /\ UNCHANGED <<isOpen, sessionId, mounted>>

\* The continuations of handleSendMessage call no setter but setMessages.
SettleFrame == UNCHANGED <<isOpen, inputValue, sessionId, mounted>>

FetchMaySettleWhileOpen(i) ==
    /\ requests[i].stage = "fetch"
    /\ isOpen

FetchMaySettleInOrder(i) ==
    /\ requests[i].stage = "fetch"
    /\ \A k \in 1..(i - 1) : requests[k].stage = "done"

\* Any request still awaiting fetch may settle, whatever the others do.
FetchMaySettle(i) == requests[i].stage = "fetch"

\* `await fetch(...)` settles for request i: a rejection or a non-ok
\* Response goes to the catch block, an ok Response to `await response.json()`.
FetchSettle(i) ==
    /\ i \in 1..Len(requests)
    /\ FetchMaySettle(i)
    /\ \E o \in FetchOutcomes :
         IF o.kind = "reject"
         THEN Catch(i, "reject", 0, "")
         ELSE IF ~ResponseOk(o.status)
         THEN Catch(i, "response", o.status, "")
         ELSE /\ requests' = [requests EXCEPT ![i].stage = "json",
                                              ![i].fetched = "response",
                                              ![i].status = o.status]
              /\ UNCHANGED messages
    /\ Record("fetchSettled")
    /\ SettleFrame

\* `await response.json()` settles for request i, the body having arrived.
JsonSettle(i) ==
    /\ i \in 1..Len(requests)
    /\ requests[i].stage = "json"
    /\ \E body \in Bodies :
       LET data == JsonParse(body) IN
         IF data.t = "SyntaxError"
         THEN Catch(i, "response", requests[i].status, body)
         ELSE IF PropertyReadThrows(data)
         THEN Catch(i, "response", requests[i].status, body)
         ELSE /\ messages' = AddBotResponse(messages, data)
              /\ requests' = [requests EXCEPT ![i].stage = "done",
                                              ![i].body = body,
                                              ![i].promise = "fulfilled",
                                              ![i].botIdx = Len(messages) + 1]
    /\ Record("jsonSettled")
    /\ SettleFrame

Next ==
    \/ Mount
    \/ ToggleOpen
    \/ UpdateDraft
    \/ HandleKeyPress
    \/ ClickSend
    \/ \E i \in 1..MaxSends : FetchSettle(i)
    \/ \E i \in 1..MaxSends : JsonSettle(i)

Spec == Init /\ [][Next]_vars

\* Every issued request eventually settles: the network answers or fails,
\* and a continuation that can run is run by the event loop.
FairSpec ==
    /\ Spec
    /\ \A i \in 1..MaxSends : WF_vars(FetchSettle(i)) /\ WF_vars(JsonSettle(i))

(* ------------------------------------------------------------ properties *)

\* The two fixed bot messages, written out.
TheGreeting ==
    [text |-> [t |-> "string", v |-> GREETING], sender |-> "bot",
     references |-> [t |-> "undefined", v |-> <<>>]]

TheFallback ==
    [text |-> [t |-> "string", v |-> FALLBACK], sender |-> "bot",
     references |-> [t |-> "undefined", v |-> <<>>]]

\* The user message a draft is sent as.
TheUserMessage(draft) ==
    [text |-> [t |-> "string", v |-> draft], sender |-> "user",
     references |-> [t |-> "undefined", v |-> <<>>]]

\* A draft with no character other than whitespace.
AllWhitespace(draft) ==
    \A k \in 1..Len(draft) : draft[k] \in { " ", "\t", "\n" }

IsUser(m) == m.sender = "user"

IsBot(m) == m.sender = "bot"

Is2xx(status) == status \in 200..299

InFlight(i) == requests[i].stage # "done"

\* A step of handleSendMessage (the Send button, or Enter in the input).
SendStep == event' \in { "click", "enter" }

\* Request i settles for good in this step.
Settles(i) ==
    /\ i \in 1..Len(requests)
    /\ requests[i].stage # "done"
    /\ requests'[i].stage = "done"

\* A request that has ended never changes again.
DoneIsFinal ==
    \A i \in 1..Len(requests) :
        requests[i].stage = "done" =>
            Len(requests') >= i /\ requests'[i] = requests[i]

\* C1: the message log is append-only.  Every step leaves the log as it is
\* or adds exactly one message at its end, so that no message is removed,
\* moved or altered (a failed request does not take its user message back),
\* and the first element is always the fixed bot greeting.
C1_LogStep ==
    \/ messages' = messages
    \/ /\ Len(messages') = Len(messages) + 1
       /\ SubSeq(messages', 1, Len(messages)) = messages

C1_AppendOnlyLog ==
    /\ [](Len(messages) >= 1 /\ messages[1] = TheGreeting)
    /\ [][C1_LogStep]_vars

\* A request has failed and the user message sent just before it is still
\* in the log, followed by the fallback.
C1_Witness ==
    \E i \in 1..Len(requests) :
        /\ requests[i].fetched = "reject"
        /\ requests[i].botIdx = 3
        /\ IsUser(messages[2])
        /\ messages[3] = TheFallback

\* C2: a send with an empty or whitespace-only draft is a no-op.  It appends
\* nothing, issues no request and leaves the draft, isOpen and the session
\* identifier as they are, also while earlier requests are in flight.
C2_BlankSendIsNoOp ==
    [][(SendStep /\ AllWhitespace(inputValue)) =>
           UNCHANGED <<messages, requests, inputValue, isOpen, sessionId>>]_vars

\* The Send button was clicked on a whitespace-only draft while a request
\* was in flight.
C2_Witness ==
    /\ event = "click"
    /\ inputValue = <<" ">>
    /\ \E i \in 1..Len(requests) : InFlight(i)

\* C3: a send with a draft that is non-empty after trimming appends the user
\* message {text: draft, sender: "user"} in the step of the call itself, and
\* the request it issues is only then awaiting fetch; so the user message of
\* every request that has settled is in the log, before its bot message.
C3_AcceptedSendStep ==
    (SendStep /\ requests' # requests) =>
        /\ ~AllWhitespace(inputValue)
        /\ messages' = Append(messages, TheUserMessage(inputValue))
        /\ Len(requests') = Len(requests) + 1
        /\ requests'[Len(requests')].stage = "fetch"
        /\ requests'[Len(requests')].botIdx = 0

C3_ClickStep ==
    (event' = "click" /\ ~AllWhitespace(inputValue)) =>
        messages' = Append(messages, TheUserMessage(inputValue))

C3_SettledHasUserMessage ==
    \A i \in 1..Len(requests) :
        requests[i].stage = "done" =>
            \E k \in 1..Len(messages) :
                /\ k < requests[i].botIdx
                /\ messages[k] = TheUserMessage(requests[i].message)

C3_UserMessageBeforeSettle ==
    /\ []C3_SettledHasUserMessage
    /\ [][C3_AcceptedSendStep /\ C3_ClickStep]_vars

\* A request is still awaiting fetch and its user message is the last
\* message of the log.
C3_Witness ==
    /\ Len(requests) = 1
    /\ requests[1].stage = "fetch"
    /\ requests[1].message = <<" ", "b">>
    /\ messages = <<TheGreeting, TheUserMessage(<<" ", "b">>)>>

\* The bot message a success body is answered with.
C4_Reply(body) ==
    IF body = BodyReplyRefs
    THEN [text |-> [t |-> "string", v |-> <<"K">>], sender |-> "bot",
          references |-> [t |-> "array", v |-> <<"u1", "u2">>]]
    ELSE [text |-> [t |-> "string", v |-> <<"K">>], sender |-> "bot",
          references |-> [t |-> "undefined", v |-> <<>>]]

\* C4: when a request settles successfully (a 2xx status and a body
\* {response, references?}), exactly one bot message is appended for it, its
\* text the body's response and its references the body's references
\* (absent when the body has none); nothing else is ever appended for it.
C4_SuccessStep ==
    \A i \in 1..Len(requests) :
        (/\ Settles(i)
         /\ Is2xx(requests'[i].status)
         /\ requests'[i].body \in { BodyReply, BodyReplyRefs }) =>
            /\ messages' = Append(messages, C4_Reply(requests'[i].body))
            /\ requests'[i].botIdx = Len(messages')

C4_SuccessAppendsReply == [][C4_SuccessStep /\ DoneIsFinal]_vars

\* A reply with its two references is in the log.
C4_Witness ==
    \E i \in 1..Len(requests) :
        /\ requests[i].stage = "done"
        /\ requests[i].body = BodyReplyRefs
        /\ messages[requests[i].botIdx] = C4_Reply(BodyReplyRefs)

\* Fetch has settled for request i with a rejection or a non-2xx status.
C5_Failed(r) ==
    \/ r.fetched = "reject"
    \/ r.fetched = "response" /\ ~Is2xx(r.status)

\* C5: when a request fails by network rejection or by a non-2xx status,
\* exactly one bot message, carrying the fixed fallback text, is appended
\* for it, no success-shaped message is appended for it, and the promise of
\* the send is fulfilled (no exception leaves it).
C5_FailureStep ==
    \A i \in 1..Len(requests) :
        (requests[i].stage = "fetch" /\ C5_Failed(requests'[i])) =>
            /\ messages' = Append(messages, TheFallback)
            /\ requests'[i].stage = "done"
            /\ requests'[i].botIdx = Len(messages')
            /\ requests'[i].promise = "fulfilled"

C5_FailureAppendsFallback ==
    /\ [](\A i \in 1..Len(requests) : requests[i].promise # "rejected")
    /\ [][C5_FailureStep /\ DoneIsFinal]_vars

\* A request answered with status 500 has its fallback in the log.
C5_Witness ==
    \E i \in 1..Len(requests) :
        /\ requests[i].status = 500
        /\ requests[i].stage = "done"
        /\ messages[requests[i].botIdx] = TheFallback

\* A body is malformed when it cannot be parsed or its parsed value does not
\* carry a string `response`.
C6_Malformed(body) == body \in { BodyGarbage, BodyNull, BodyEmptyObject }

\* C6: the bot message appended for a request that settled with a malformed
\* body is the fixed fallback message, and every bot message in the log has
\* a string text.
C6_MalformedBodyGetsFallback ==
    /\ \A i \in 1..Len(requests) :
           (requests[i].stage = "done" /\ Is2xx(requests[i].status)
                /\ C6_Malformed(requests[i].body)) =>
               messages[requests[i].botIdx] = TheFallback
    /\ \A k \in 1..Len(messages) :
           IsBot(messages[k]) => messages[k].text.t = "string"

\* The texts of the user messages of the log, in log order.
UserTexts == [k \in 1..Len(SelectSeq(messages, IsUser)) |->
                 SelectSeq(messages, IsUser)[k].text.v]

\* The drafts of the accepted sends, in call order.
SentDrafts == [i \in 1..Len(requests) |-> requests[i].message]

\* C7: the user messages are in the log in the order of their sends, in
\* whatever order and after whatever delay the requests settle.
C7_UserMessagesInSendOrder == UserTexts = SentDrafts

\* Two different drafts were sent and the second request has ended while
\* the first is still in flight.
C7_Witness ==
    /\ Len(requests) = 2
    /\ requests[1].message # requests[2].message
    /\ requests[1].stage = "fetch"
    /\ requests[2].stage = "done"

\* C8: no order is imposed on the responses.  While an earlier request is in
\* flight a later one can settle, so the bot message of a later send can
\* come before the bot message of an earlier one.
C8_LaterRequestCanSettleFirst ==
    \A i, j \in 1..Len(requests) :
        (i < j /\ InFlight(i)) =>
            /\ requests[j].stage = "fetch" => ENABLED FetchSettle(j)
            /\ requests[j].stage = "json" => ENABLED JsonSettle(j)

\* The reply to the second send is in the log before the reply to the first.
C8_Witness ==
    /\ Len(requests) = 2
    /\ requests[1].stage = "done"
    /\ requests[2].stage = "done"
    /\ requests[2].botIdx < requests[1].botIdx
    /\ messages[requests[2].botIdx] = C4_Reply(BodyReplyRefs)
    /\ messages[requests[1].botIdx] = C4_Reply(BodyReply)

\* C9: toggleOpen flips isOpen, so that two in a row restore it, and leaves
\* the log, the draft, the session identifier and the requests in flight as
\* they are; isOpen is false initially and no other operation changes it.
C9_ToggleStep ==
    /\ event' = "toggle" =>
           /\ isOpen' = ~isOpen
           /\ UNCHANGED <<messages, inputValue, sessionId, requests>>
    /\ isOpen' # isOpen => event' = "toggle"

C9_ToggleOnlyFlipsIsOpen ==
    /\ (event = "init" => isOpen = FALSE)
    /\ [][C9_ToggleStep]_vars

\* The widget was closed again with a draft typed and a request in flight.
C9_Witness ==
    /\ event = "toggle"
    /\ ~isOpen
    /\ inputValue = <<"a">>
    /\ \E i \in 1..Len(requests) : InFlight(i)

\* C10: right after initialization (construction and the mount effect),
\* before any other operation, the log has exactly one message, the fixed
\* greeting, whose sender is "bot" and which has no references.
C10_InitialLogIsGreeting ==
    event \in { "init", "mount" } =>
        /\ Len(messages) = 1
        /\ messages[1].sender = "bot"
        /\ messages[1].text = [t |-> "string", v |-> GREETING]
        /\ messages[1].references = [t |-> "undefined", v |-> <<>>]

\* The mount effect has run and nothing else has happened.
C10_Witness ==
    /\ event = "mount"
    /\ mounted
    /\ messages = <<TheGreeting>>

\* C11: every request carries the session identifier generated at mount.
\* Once generated the identifier never changes, and no request is issued
\* with another session_id, in particular not with the empty initial value.
C11_SessionStep ==
    /\ sessionId # "" => sessionId' = sessionId
    /\ \A i \in 1..Len(requests) :
           Len(requests') >= i /\ requests'[i].session_id = requests[i].session_id

C11_OneSessionId ==
    /\ [](\A i \in 1..Len(requests) :
              requests[i].session_id # "" /\ requests[i].session_id = sessionId)
    /\ [][C11_SessionStep]_vars

\* Two requests have been issued, both with the identifier of the mount.
C11_Witness ==
    /\ Len(requests) = 2
    /\ sessionId = "session-0ab84mdtw"
    /\ requests[1].session_id = "session-0ab84mdtw"
    /\ requests[2].session_id = "session-0ab84mdtw"

\* C12: an accepted send issues exactly one request and a failed request is
\* not retried.  The requests issued are as many as the user messages in the
\* log, only a send step issues a request, and it issues one.
C12_IssueStep ==
    requests' # requests =>
        \/ /\ SendStep
           /\ Len(requests') = Len(requests) + 1
           /\ SubSeq(requests', 1, Len(requests)) = requests
        \/ /\ event' \in { "fetchSettled", "jsonSettled" }
           /\ Len(requests') = Len(requests)

C12_OneRequestPerSend ==
    /\ [](Len(requests) = Len(SelectSeq(messages, IsUser)))
    /\ [][C12_IssueStep]_vars

\* A request has failed while the bound on sends was not reached: a retry
\* would have had room.
C12_Witness ==
    /\ Len(requests) = 1
    /\ requests[1].stage = "done"
    /\ requests[1].status = 500
    /\ Len(SelectSeq(messages, IsUser)) = 1

\* C13: the `message` of the request an accepted send issues is the draft as
\* it was when send was called, not the cleared draft, and so it is the text
\* of the user message that send appends.
C13_SendStep ==
    (SendStep /\ requests' # requests) =>
        /\ requests'[Len(requests')].message = inputValue
        /\ requests'[Len(requests')].message # inputValue'
        /\ IsUser(messages'[Len(messages')])
        /\ messages'[Len(messages')].text =
               [t |-> "string", v |-> requests'[Len(requests')].message]

C13_RequestCarriesDraft == [][C13_SendStep]_vars

\* A request carries the draft " b", untrimmed, and the draft is cleared.
C13_Witness ==
    /\ Len(requests) = 1
    /\ requests[1].message = <<" ", "b">>
    /\ inputValue = <<>>
    /\ event \in { "click", "enter" }

\* The bot message of request i is in the log.
C14_Answered(i) ==
    /\ Len(requests) >= i
    /\ requests[i].stage = "done"
    /\ requests[i].botIdx \in 2..Len(messages)
    /\ IsBot(messages[requests[i].botIdx])

\* A bot message is appended only by the settlement of a request.
C14_BotStep ==
    (Len(messages') > Len(messages) /\ IsBot(messages'[Len(messages')])) =>
        /\ event' \in { "fetchSettled", "jsonSettled" }
        /\ \E i \in 1..Len(requests) : Settles(i)

C15_AcceptedClick ==
    /\ ClickSend
    /\ messages' = Append(messages, TheUserMessage(inputValue))
    /\ Len(requests') = Len(requests) + 1

C15_AcceptedEnter ==
    /\ HandleKeyPress
    /\ messages' = Append(messages, TheUserMessage(inputValue))
    /\ Len(requests') = Len(requests) + 1

C15_DraftBecomes(text) == UpdateDraft /\ inputValue' = text

C15_Toggles == ToggleOpen /\ isOpen' = ~isOpen

\* C15: there is no input lock.  With requests in flight the toggle remains
\* enabled, and with the widget open so do every draft change and, for a
\* draft that is non-empty after trimming, an accepted send (up to the bound
\* on sends explored), exactly as with none in flight.
C15_NoInputLock ==
    mounted =>
        /\ ENABLED C15_Toggles
        /\ isOpen =>
               /\ \A text \in Drafts : ENABLED C15_DraftBecomes(text)
               /\ (~AllWhitespace(inputValue) /\ Len(requests) < MaxSends) =>
                      ENABLED C15_AcceptedClick /\ ENABLED C15_AcceptedEnter

\* Two requests are in flight at once, the second sent while the first was.
C15_Witness ==
    /\ Len(requests) = 2
    /\ requests[1].stage = "fetch"
    /\ requests[2].stage = "fetch"
    /\ Len(messages) = 3

\* C16: an accepted send clears the draft, so a send invoked again with no
\* updateDraft in between (Enter, then at once a click on Send) appends no
\* second user message and issues no second request.
C16_ClearStep == (SendStep /\ requests' # requests) => inputValue' = <<>>

C16_ResendStep ==
    (event \in { "click", "enter" } /\ SendStep) =>
        UNCHANGED <<messages, requests, inputValue>>

C16_SendClearsDraft == [][C16_ClearStep /\ C16_ResendStep]_vars

\* Enter has sent the draft "a" and the draft is empty: the state in which
\* the click on Send follows.
C16_Witness ==
    /\ event = "enter"
    /\ inputValue = <<>>
    /\ Len(requests) = 1
    /\ requests[1].stage = "fetch"
    /\ messages = <<TheGreeting, TheUserMessage(<<"a">>)>>

\* The bot messages of the log after the greeting, the requests that have
\* settled, the user messages of the log: how many of each.
BotReplies == Len(SelectSeq(Tail(messages), IsBot))

SettledRequests == Cardinality({ i \in 1..Len(requests) : ~InFlight(i) })

UserMessages == Len(SelectSeq(messages, IsUser))

UserPosition(i) ==
    CHOOSE k \in 1..Len(messages) :
        /\ IsUser(messages[k])
        /\ Len(SelectSeq(SubSeq(messages, 1, k), IsUser)) = i

\* C18: the bot message of a request is in the log after the user message of
\* the send that issued the request, however sends and settlements
\* interleave.
C18_ReplyAfterQuestion ==
    \A i \in 1..Len(requests) :
        ~InFlight(i) =>
            /\ requests[i].botIdx \in 1..Len(messages)
            /\ IsBot(messages[requests[i].botIdx])
            /\ UserMessages >= i
            /\ UserPosition(i) < requests[i].botIdx

\* The second send's reply is in the log before the first's, both after
\* their own user messages.
C18_Witness ==
    /\ Len(requests) = 2
    /\ ~InFlight(1)
    /\ ~InFlight(2)
    /\ UserPosition(1) = 2
    /\ UserPosition(2) = 3
    /\ requests[2].botIdx = 4
    /\ requests[1].botIdx = 5

\* C19: the settlement of a request changes only the log.  isOpen, the
\* session identifier and the draft stay as they are, so a draft typed while
\* the request was in flight is still there when the reply arrives.
C19_SettleStep ==
    event' \in { "fetchSettled", "jsonSettled" } =>
        UNCHANGED <<isOpen, sessionId, inputValue>>

C19_SettlementKeepsDraft == [][C19_SettleStep]_vars

\* A reply has arrived and the draft typed meanwhile is in the input.
C19_Witness ==
    /\ event = "jsonSettled"
    /\ inputValue = <<" ", "b">>
    /\ isOpen
    /\ Len(requests) = 1
    /\ requests[1].stage = "done"
    /\ requests[1].message = <<"a">>

====
